---------------------------- MODULE Spec2Model ----------------------------
(***************************************************************************)
(* A model of funcsamp2D.cpp: sampling of a 2D function on the unit square *)
(* with tables of sample sequences read from a file, and the table of      *)
(* sampling errors printed for sample counts 4, 8, 12, ...                 *)
(*                                                                         *)
(* Doubles are modelled as exact rationals [n, d] (d > 0), with the two    *)
(* special values NaN and Inf that main can produce by dividing by zero.   *)
(* The calls into libm (sqrt, exp, sin) are tabulated to three decimals at *)
(* the arguments that the sample grid {0, 0.5, 1} produces.  M_PI is       *)
(* 355/113.  A file is a sequence of tokens (a newline, a piece of text    *)
(* that is no number, or the decimal text of a number) separated by blanks.*)
(***************************************************************************)
EXTENDS Integers, Sequences, FiniteSets, TLC

(***************************************************************************)
(* Bounds of the model.                                                    *)
(***************************************************************************)
MaxSamples == 8
MaxSequences == 2
MaxFilePairs == 2
MaxFileBlocks == 2

(***************************************************************************)
(* Program constants.                                                      *)
(***************************************************************************)
MAXSAMPLES == 4096
MAXTABLES == 10000
NUMFUNCTIONS == 18
DefaultNumSamples == 1024
DefaultNumSequences == 100
HeaderLines == 3
SeparatorLines == 2
ReportStride == 4
FractionDigits == 6

NULL == "NULL"

(***************************************************************************)
(* double: exact rationals in lowest terms, NaN and Inf.                   *)
(***************************************************************************)
RECURSIVE GCD(_, _)
GCD(a, b) ==
    IF b = 0 THEN a ELSE GCD(b, a % b)

Abs(i) ==
    IF i < 0 THEN -i ELSE i

Norm(n, d) ==
    LET g == GCD(Abs(n), d)
    IN  IF n < 0 THEN [n |-> -(Abs(n) \div g), d |-> d \div g]
                 ELSE [n |-> n \div g, d |-> d \div g]

D(n, d) ==
    Norm(n, d)

Zero == [n |-> 0, d |-> 1]
One == [n |-> 1, d |-> 1]
NaN == [n |-> 0, d |-> 0]
Inf == [n |-> 1, d |-> 0]

IsFinite(a) ==
    a.d # 0

IsNaN(a) ==
    a.d = 0 /\ a.n = 0

\* (double) i
IntToDouble(i) ==
    [n |-> i, d |-> 1]

DNeg(a) ==
    [n |-> -a.n, d |-> a.d]

DAdd(a, b) ==
    IF ~IsFinite(a) \/ ~IsFinite(b)
    THEN (IF IsNaN(a) \/ IsNaN(b) \/ a.n # b.n THEN NaN ELSE a)
    ELSE LET g == GCD(a.d, b.d)
             L == (a.d \div g) * b.d
         IN  Norm(a.n * (L \div a.d) + b.n * (L \div b.d), L)

DSub(a, b) ==
    DAdd(a, DNeg(b))

DMul(a, b) ==
    IF ~IsFinite(a) \/ ~IsFinite(b)
    THEN (IF a.n = 0 \/ b.n = 0 THEN NaN
          ELSE [n |-> (IF (a.n < 0) = (b.n < 0) THEN 1 ELSE -1), d |-> 0])
    ELSE LET g1 == GCD(Abs(a.n), b.d)
             g2 == GCD(Abs(b.n), a.d)
         IN  IF a.n = 0 \/ b.n = 0 THEN Zero
             ELSE Norm((a.n \div g1) * (b.n \div g2), (a.d \div g2) * (b.d \div g1))

DDiv(a, b) ==
    IF ~IsFinite(a) \/ ~IsFinite(b)
    THEN (IF IsFinite(a) /\ ~IsNaN(b) THEN Zero
          ELSE IF IsFinite(b) /\ ~IsNaN(a) /\ b.n # 0
               THEN [n |-> (IF (a.n < 0) = (b.n < 0) THEN 1 ELSE -1), d |-> 0]
               ELSE NaN)
    ELSE IF b.n = 0
         THEN (IF a.n = 0 THEN NaN
               ELSE [n |-> (IF a.n < 0 THEN -1 ELSE 1), d |-> 0])
         ELSE IF b.n < 0 THEN DMul(DNeg(a), [n |-> b.d, d |-> -b.n])
                         ELSE DMul(a, [n |-> b.d, d |-> b.n])

\* a < b; false when either is NaN
DLt(a, b) ==
    IF IsNaN(a) \/ IsNaN(b) THEN FALSE
    ELSE IF ~IsFinite(a) THEN a.n < 0 /\ (IsFinite(b) \/ b.n > 0)
    ELSE IF ~IsFinite(b) THEN b.n > 0
    ELSE LET g == GCD(a.d, b.d)
             L == (a.d \div g) * b.d
         IN  a.n * (L \div a.d) < b.n * (L \div b.d)

DLe(a, b) ==
    IF IsNaN(a) \/ IsNaN(b) THEN FALSE ELSE ~DLt(b, a)

\* a > b; a >= b
DGt(a, b) ==
    DLt(b, a)

DGe(a, b) ==
    DLe(b, a)

fabs(a) ==
    [n |-> Abs(a.n), d |-> a.d]

\* MAX(a,b) ((a > b) ? (a) : (b))
MAX(a, b) ==
    IF DGt(a, b) THEN a ELSE b

M_PI == D(355, 113)

(***************************************************************************)
(* libm, tabulated to three decimals at the arguments the grid produces.   *)
(***************************************************************************)
sqrt(a) ==
    CASE a = Zero -> Zero
      [] a = D(1, 4) -> D(1, 2)
      [] a = D(1, 2) -> D(707, 1000)
      [] a = One -> One
      [] a = D(5, 4) -> D(1118, 1000)
      [] a = D(2, 1) -> D(1414, 1000)

exp(a) ==
    CASE a = Zero -> One
      [] a = D(-1, 4) -> D(779, 1000)
      [] a = D(-1, 2) -> D(607, 1000)
      [] a = D(-1, 1) -> D(368, 1000)
      [] a = D(-5, 4) -> D(287, 1000)
      [] a = D(-2, 1) -> D(135, 1000)

sin(a) ==
    LET q == DDiv(a, M_PI)
    IN  CASE q = Zero -> Zero
          [] q = D(1, 2) -> One
          [] q = One -> Zero
          [] q = D(3, 2) -> D(-1, 1)
          [] q = D(2, 1) -> Zero
          [] q = D(1000, 707) -> D(-964, 1000)
          [] q = D(1000, 1118) -> D(326, 1000)
          [] q = D(1000, 1414) -> D(795, 1000)

(***************************************************************************)
(* The functions.                                                          *)
(***************************************************************************)
quarterdisk(x, y) ==
    LET radius2 == DDiv(D(2, 1), M_PI)
        r2 == DAdd(DMul(x, x), DMul(y, y))
    IN  IF DLt(r2, radius2) THEN One ELSE Zero

fulldisk(x, y) ==
    LET radius2 == DDiv(One, DMul(D(2, 1), M_PI))
        x1 == DSub(x, D(1, 2))
        y1 == DSub(y, D(1, 2))
        r2 == DAdd(DMul(x1, x1), DMul(y1, y1))
    IN  IF DLt(r2, radius2) THEN One ELSE Zero

triangle(x, y) ==
    IF DLt(DAdd(x, y), One) THEN One ELSE Zero

quarterdiskramp(x, y) ==
    LET innerRadius == D(7, 10)
        outerRadius == D(9, 10)
        r == sqrt(DAdd(DMul(x, x), DMul(y, y)))
    IN  IF DLe(r, innerRadius) THEN One
        ELSE IF DGe(r, outerRadius) THEN Zero
        ELSE DSub(One, DDiv(DSub(r, innerRadius), DSub(outerRadius, innerRadius)))

fulldiskramp(x, y) ==
    LET innerRadius == D(35, 100)
        outerRadius == D(45, 100)
        x1 == DSub(x, D(1, 2))
        y1 == DSub(y, D(1, 2))
        r == sqrt(DAdd(DMul(x1, x1), DMul(y1, y1)))
    IN  IF DLe(r, innerRadius) THEN One
        ELSE IF DGe(r, outerRadius) THEN Zero
        ELSE DSub(One, DDiv(DSub(r, innerRadius), DSub(outerRadius, innerRadius)))

triangleramp(x, y) ==
    LET ymx0 == DMul(D(5, 1), DSub(y, x))
        ymx == IF DGe(ymx0, D(1, 2)) THEN D(1, 2)
               ELSE IF DLe(ymx0, D(-1, 2)) THEN D(-1, 2)
               ELSE ymx0
    IN  DAdd(ymx, D(1, 2))

quartergaussian2D(x, y) ==
    exp(DSub(DNeg(DMul(x, x)), DMul(y, y)))

fullgaussian2D(x, y) ==
    LET x1 == DSub(x, D(1, 2))
        y1 == DSub(y, D(1, 2))
    IN  exp(DSub(DNeg(DMul(x1, x1)), DMul(y1, y1)))

bilinear(x, y) ==
    DMul(x, y)

biquadratic(x, y) ==
    DMul(DMul(DMul(x, x), y), y)

sinxy(x, y) ==
    sin(DMul(M_PI, DAdd(x, y)))

sininvr(x, y) ==
    LET r == sqrt(DAdd(DMul(x, x), DMul(y, y)))
    IN  IF DGt(r, Zero) THEN sin(DDiv(M_PI, r)) ELSE One

step(x) ==
    IF DLt(x, DDiv(One, M_PI)) THEN One ELSE Zero

ramp(x) ==
    LET left == D(2, 10)
        right == D(4, 10)
    IN  IF DLe(x, left) THEN One
        ELSE IF DGe(x, right) THEN Zero
        ELSE DSub(One, DDiv(DSub(x, left), DSub(right, left)))

linear(x) ==
    x

gaussian1D(x) ==
    exp(DNeg(DMul(x, x)))

sinx(x) ==
    sin(DMul(M_PI, x))

sin2x(x) ==
    sin(DMul(DMul(D(2, 1), M_PI), x))

(***************************************************************************)
(* Known functions and their reference values; entry i is at index i + 1.  *)
(***************************************************************************)
functionTable ==
    << [name |-> "quarterdisk", refValue |-> D(1, 2)],
       [name |-> "fulldisk", refValue |-> D(1, 2)],
       [name |-> "triangle", refValue |-> D(1, 2)],
       [name |-> "quarterdiskramp", refValue |-> D(505273, 1000000)],
       [name |-> "fulldiskramp", refValue |-> D(505273, 1000000)],
       [name |-> "triangleramp", refValue |-> D(1, 2)],
       [name |-> "quartergaussian", refValue |-> D(55774629, 100000000)],
       [name |-> "fullgaussian", refValue |-> D(851121, 1000000)],
       [name |-> "bilinear", refValue |-> D(1, 4)],
       [name |-> "biquadratic", refValue |-> DDiv(One, D(9, 1))],
       [name |-> "sinxy", refValue |-> Zero],
       [name |-> "sininvr", refValue |-> D(-220242, 1000000)],
       [name |-> "stepx", refValue |-> DDiv(One, M_PI)],
       [name |-> "rampx", refValue |-> D(3, 10)],
       [name |-> "lineary", refValue |-> D(1, 2)],
       [name |-> "gaussianx", refValue |-> D(74682413, 100000000)],
       [name |-> "siny", refValue |-> DDiv(D(2, 1), M_PI)],
       [name |-> "sin2x", refValue |-> Zero] >>

\* the switch of evaluateFunction, applied to the sample read from the table
EvalSwitch(functionNum, sample) ==
    CASE functionNum = 0 -> quarterdisk(sample.x, sample.y)
      [] functionNum = 1 -> fulldisk(sample.x, sample.y)
      [] functionNum = 2 -> triangle(sample.x, sample.y)
      [] functionNum = 3 -> quarterdiskramp(sample.x, sample.y)
      [] functionNum = 4 -> fulldiskramp(sample.x, sample.y)
      [] functionNum = 5 -> triangleramp(sample.x, sample.y)
      [] functionNum = 6 -> quartergaussian2D(sample.x, sample.y)
      [] functionNum = 7 -> fullgaussian2D(sample.x, sample.y)
      [] functionNum = 8 -> bilinear(sample.x, sample.y)
      [] functionNum = 9 -> biquadratic(sample.x, sample.y)
      [] functionNum = 10 -> sinxy(sample.x, sample.y)
      [] functionNum = 11 -> sininvr(sample.x, sample.y)
      [] functionNum = 12 -> step(sample.x)
      [] functionNum = 13 -> ramp(sample.x)
      [] functionNum = 14 -> linear(sample.y)
      [] functionNum = 15 -> gaussian1D(sample.x)
      [] functionNum = 16 -> sinx(sample.y)
      [] functionNum = 17 -> sin2x(sample.x)
      [] OTHER -> Zero

(***************************************************************************)
(* Text: command-line arguments and the tokens of a file are sequences of  *)
(* characters.                                                             *)
(***************************************************************************)
DigitChars == <<"0", "1", "2", "3", "4", "5", "6", "7", "8", "9">>

IsDigit(ch) ==
    \E i \in 1..10 : DigitChars[i] = ch

DigitValue(ch) ==
    (CHOOSE i \in 1..10 : DigitChars[i] = ch) - 1

\* the value of the run of digits of cs that starts at index i, after acc
RECURSIVE ReadDigits(_, _, _)
ReadDigits(cs, i, acc) ==
    IF i > Len(cs) \/ ~IsDigit(cs[i]) THEN [value |-> acc, next |-> i]
    ELSE ReadDigits(cs, i + 1, acc * 10 + DigitValue(cs[i]))

RECURSIVE SkipBlanks(_, _)
SkipBlanks(cs, i) ==
    IF i <= Len(cs) /\ cs[i] = " " THEN SkipBlanks(cs, i + 1) ELSE i

\* atoi: blanks, an optional sign, digits up to the first character that is none
atoi(cs) ==
    LET i == SkipBlanks(cs, 1)
        neg == i <= Len(cs) /\ cs[i] = "-"
        j == IF i <= Len(cs) /\ (cs[i] = "-" \/ cs[i] = "+") THEN i + 1 ELSE i
        v == ReadDigits(cs, j, 0).value
    IN  IF neg THEN -v ELSE v

RECURSIVE Pow10(_)
Pow10(k) ==
    IF k = 0 THEN 1 ELSE 10 * Pow10(k - 1)

\* the %lf conversion of a number token: digits, an optional point and digits
strtod(cs) ==
    LET neg == cs[1] = "-"
        i == IF neg THEN 2 ELSE 1
        ip == ReadDigits(cs, i, 0)
        hasFrac == ip.next <= Len(cs) /\ cs[ip.next] = "."
        fp == IF hasFrac THEN ReadDigits(cs, ip.next + 1, 0)
              ELSE [value |-> 0, next |-> ip.next + 1]
        scale == Pow10(fp.next - (ip.next + 1))
        v == D(ip.value * scale + fp.value, scale)
    IN  IF neg THEN DNeg(v) ELSE v

\* the decimal text of an integer (what the user types for a count)
RECURSIVE NatText(_)
NatText(k) ==
    IF k < 10 THEN <<DigitChars[k + 1]>>
    ELSE Append(NatText(k \div 10), DigitChars[(k % 10) + 1])

IntText(k) ==
    IF k < 0 THEN <<"-">> \o NatText(-k) ELSE NatText(k)

(***************************************************************************)
(* The samples file, as the reader sees it.  A file is given by the number *)
(* of pairs in each block, the number of blocks, its length in tokens (a   *)
(* file cut short ends anywhere) and the point set it holds:               *)
(*   text NL text NL text NL                         three header lines    *)
(*   x y NL ... x y NL  text NL                      one block             *)
(* A block of no pairs is an empty line and the separator line.            *)
(***************************************************************************)
NL == <<"\n">>
Comment == <<"/", "/">>
CoordText == << <<"0", ".", "0">>, <<"0", ".", "5">>, <<"1", ".", "0">> >>

IsNumber(tok) ==
    IsDigit(tok[1])

HeaderTokens == 2 * HeaderLines

BodyTokens(P) ==
    IF P = 0 THEN 1 ELSE 3 * P

BlockTokens(P) ==
    BodyTokens(P) + 2

FullLength(P, B) ==
    HeaderTokens + B * BlockTokens(P)

\* the j-th point of block b: the centroid everywhere (seed 0), the grid
\* walked row by row, each block starting four points further (seed 1), or
\* the origin everywhere but for the corner (1, 1) as point MAXSAMPLES of the
\* first block (seed 2)
PointIndex(seed, b, j) ==
    IF seed = 0 THEN 4
    ELSE IF seed = 1 THEN (j + 4 * b) % 9
    ELSE IF b = 0 /\ j = MAXSAMPLES THEN 8 ELSE 0

PointText(seed, b, j) ==
    LET k == PointIndex(seed, b, j)
    IN  [x |-> CoordText[(k % 3) + 1], y |-> CoordText[(k \div 3) + 1]]

\* the token at offset p < f.len
TokAt(f, p) ==
    IF p < HeaderTokens THEN (IF p % 2 = 0 THEN Comment ELSE NL)
    ELSE LET q == p - HeaderTokens
             b == q \div BlockTokens(f.pairs)
             o == q % BlockTokens(f.pairs)
         IN  IF o = BodyTokens(f.pairs) THEN Comment
             ELSE IF o > BodyTokens(f.pairs) THEN NL
             ELSE IF f.pairs = 0 \/ o % 3 = 2 THEN NL
             ELSE IF o % 3 = 0 THEN PointText(f.seed, b, o \div 3).x
             ELSE PointText(f.seed, b, o \div 3).y

\* the offset of the first newline at or after p; f.len when there is none
RECURSIVE FindNewline(_, _)
FindNewline(f, p) ==
    IF p >= f.len THEN f.len
    ELSE IF TokAt(f, p) = NL THEN p
    ELSE FindNewline(f, p + 1)

\* the offset of the first token at or after p that is no white space
RECURSIVE SkipWhite(_, _)
SkipWhite(f, p) ==
    IF p < f.len /\ TokAt(f, p) = NL THEN SkipWhite(f, p + 1) ELSE p

\* skipLine(fd) called at offset p with c holding cIn: the loop reads up to and
\* including the next newline; at the end of the file fscanf fails, leaves c
\* as it is, and the loop goes on unless c is a newline
skipLine(f, p, cIn) ==
    LET nl == FindNewline(f, p)
    IN  IF nl < f.len THEN [pos |-> nl + 1, c |-> "\n", returns |-> TRUE]
        ELSE IF p < f.len THEN [pos |-> f.len, c |-> "/", returns |-> FALSE]
        ELSE [pos |-> f.len, c |-> cIn, returns |-> cIn = "\n"]

\* fscanf(fd, "%lf %lf", &x, &y) at offset p: the number of items assigned,
\* or -1 (EOF) when the input ends before the first conversion
fscanfPair(f, p, x0, y0) ==
    LET p1 == SkipWhite(f, p)
    IN  IF p1 >= f.len THEN [ok |-> -1, pos |-> f.len, x |-> x0, y |-> y0]
        ELSE IF ~IsNumber(TokAt(f, p1)) THEN [ok |-> 0, pos |-> p1, x |-> x0, y |-> y0]
        ELSE LET x1 == strtod(TokAt(f, p1))
                 p2 == SkipWhite(f, p1 + 1)
             IN  IF p2 >= f.len THEN [ok |-> 1, pos |-> f.len, x |-> x1, y |-> y0]
                 ELSE IF ~IsNumber(TokAt(f, p2))
                      THEN [ok |-> 1, pos |-> p2, x |-> x1, y |-> y0]
                 ELSE [ok |-> 2, pos |-> p2 + 1, x |-> x1, y |-> strtod(TokAt(f, p2))]

(***************************************************************************)
(* printf.                                                                 *)
(***************************************************************************)
\* one digit of the long division r / d (r < d): the quotient digit of 10 r / d
\* and the remainder, computed without forming 10 r
DivDigit(r, d) ==
    LET dq == d \div 10
        dr == d % 10
        Fits(k) == k * dq + ((k * dr + 9) \div 10) <= r
        k == CHOOSE k \in 0..9 : Fits(k) /\ (k = 9 \/ ~Fits(k + 1))
    IN  [q |-> k, r |-> 10 * (r - k * dq) - k * dr]

RECURSIVE FracDigits(_, _, _, _)
FracDigits(r, d, k, acc) ==
    IF k = 0 THEN [frac |-> acc, r |-> r]
    ELSE LET st == DivDigit(r, d)
         IN  FracDigits(st.r, d, k - 1, acc * 10 + st.q)

\* the %f conversion: six digits after the point, rounded to nearest (even)
FormatF(a) ==
    IF IsNaN(a) THEN [text |-> "nan", int |-> 0, frac |-> 0]
    ELSE IF ~IsFinite(a)
    THEN [text |-> (IF a.n < 0 THEN "-inf" ELSE "inf"), int |-> 0, frac |-> 0]
    ELSE LET n == Abs(a.n)
             ip == n \div a.d
             fd0 == FracDigits(n % a.d, a.d, FractionDigits, 0)
             up == fd0.r > a.d - fd0.r \/ (fd0.r = a.d - fd0.r /\ fd0.frac % 2 = 1)
             fr == IF up THEN fd0.frac + 1 ELSE fd0.frac
             top == Pow10(FractionDigits)
         IN  [text |-> (IF a.n < 0 THEN "-" ELSE ""),
              int |-> (IF fr = top THEN ip + 1 ELSE ip),
              frac |-> (IF fr = top THEN 0 ELSE fr)]

UsageLine ==
    [fmt |-> "Usage: funcsamp2D functionName samplesFilename [numSamples numSequences]\n",
     args |-> <<>>]

UnknownFunctionLine(name) ==
    [fmt |-> "Unknown function: '%s'\n", args |-> <<name>>]

CannotOpenLine(name) ==
    [fmt |-> "cannot open file '%s'\n", args |-> <<name>>]

ReportLine(count, err) ==
    [fmt |-> "%i %f\n", args |-> <<count, FormatF(err)>>]

(***************************************************************************)
(* The state of a run of main.                                             *)
(***************************************************************************)
VARIABLES
    argc, argv,          \* the command line
    disk,                \* the file "samples.data" on disk
    functionName, samplesFilename, functionNumber, reference,
    numSamples, numSequences,
    fd, pos,             \* the stream and its offset (in tokens)
    c,                   \* skipLine's c
    line, s, t, x, y, ok,
    samplePoints,        \* the table, as memory: address |-> Point written there
    sumresults, result, estimate, error, sumerror, maxerror, aveerror,
    stdout, stderr, exitCode,
    pc,
    nparsed              \* history: sequence |-> number of pairs fscanf parsed for it

input == <<argc, argv, disk>>
lookup == <<functionName, functionNumber, reference>>
counts == <<samplesFilename, numSamples, numSequences>>
stream == <<fd, pos, c, line>>
table == <<x, y, ok, samplePoints, nparsed>>
sums == <<sumresults, result, estimate, error, sumerror, maxerror, aveerror>>
output == <<stdout, stderr, exitCode>>

vars == <<input, lookup, counts, stream, table, sums, output, s, t, pc>>

\* a double that was never assigned
Indeterminate == [n |-> 0, d |-> -1]

IsIndeterminate(a) ==
    a.d = -1

\* the values an indeterminate double may turn out to hold
GarbageDoubles == {Zero, One}

\* samplePoints[t][s] is the Point at this address: the rows lie one after
\* the other, MAXSAMPLES Points each
Address(tt, ss) ==
    tt * MAXSAMPLES + ss

\* the table has static storage: a Point never written is all zero
ZeroPoint == [x |-> Zero, y |-> Zero]

\* The memory of the table is the function from the addresses of the Points
\* that are not all zero to these Points.
Load(mem, tt, ss) ==
    LET a == Address(tt, ss)
    IN  IF a \in DOMAIN mem THEN mem[a] ELSE ZeroPoint

Store(mem, tt, ss, p) ==
    LET a == Address(tt, ss)
    IN  IF p = ZeroPoint THEN [b \in DOMAIN mem \ {a} |-> mem[b]]
        ELSE [b \in DOMAIN mem \cup {a} |-> IF b = a THEN p ELSE mem[b]]

evaluateFunction(mem, functionNum, tt, ss) ==
    EvalSwitch(functionNum, Load(mem, tt, ss))

\* the loop of main that looks the name up: the index of the first entry whose
\* name equals the given one, NUMFUNCTIONS when there is none
RECURSIVE FindFrom(_, _)
FindFrom(name, i) ==
    IF i = NUMFUNCTIONS THEN i
    ELSE IF functionTable[i + 1].name = name THEN i
    ELSE FindFrom(name, i + 1)

\* the lookup with a loop that starts at the second entry
FindFunction_FromSecondEntry(name) ==
    FindFrom(name, 1)

FindFunction(name) ==
    FindFrom(name, 0)

\* an fopen whose failure goes unnoticed
fopen_NeverFails(name, d) ==
    "fd"

fopen(name, d) ==
    IF name = "samples.data" /\ d.exists THEN "fd" ELSE NULL

\* the sum left undivided
Estimate_SumOnly(sum, ss) ==
    sum

Estimate(sum, ss) ==
    DDiv(sum, IntToDouble(ss + 1))

\* the stride tested on the sample index instead of the sample count
ShouldReport_OnIndex(ss) ==
    ss % ReportStride = 0

ShouldReport(ss) ==
    (ss + 1) % ReportStride = 0

(***************************************************************************)
(* The inputs: command lines and files.                                    *)
(***************************************************************************)
CatalogNames == {functionTable[i].name : i \in 1..NUMFUNCTIONS}
OtherNames == {"bogus", "Bilinear"}
\* the functions whose reference value is given to eight decimals
WideNames == {"quartergaussian", "gaussianx"}
MainNames == {"bilinear", "quarterdisk"}

File(P, B, L, seed) ==
    [exists |-> TRUE, pairs |-> P, blocks |-> B, len |-> L, seed |-> seed]

NoFile == [exists |-> FALSE, pairs |-> 0, blocks |-> 0, len |-> 0, seed |-> 0]

Scenario(n, name, fname, ns, nq, d) ==
    [argc |-> n, name |-> name, fname |-> fname, ns |-> ns, nq |-> nq, disk |-> d]

\* files of a few short blocks, whole or cut short anywhere
ShortFiles ==
    UNION {{File(P, MaxFileBlocks, L, 1) : L \in 0..FullLength(P, MaxFileBlocks)}
              : P \in 0..MaxFilePairs}

\* files of B blocks of P pairs: whole, without the last separator line, and
\* without the newline that ends the last pair as well
WholeFiles(P, B) ==
    {File(P, B, FullLength(P, B) - cut, seed) : cut \in {0, 2, 3}, seed \in {0, 1}}

UsageScenarios ==
    {Scenario(n, name, "samples.data", IntText(4), IntText(1), File(1, 1, FullLength(1, 1), 1))
        : n \in {1, 2, 6}, name \in {"bilinear", "bogus"}}

LookupScenarios ==
    {Scenario(n, name, "missing.data", IntText(4), IntText(1), NoFile)
        : n \in 3..5, name \in CatalogNames \cup OtherNames}
    \cup {Scenario(5, name, "samples.data", IntText(4), IntText(1), NoFile)
        : name \in {"bilinear", "bogus"}}

\* the default counts (1024 samples, 100 sequences) on files that end in the header
DefaultScenarios ==
    {Scenario(3, "bilinear", "samples.data", <<>>, <<>>, File(1, 1, L, 1)) : L \in {1, 3, 5}}
    \cup {Scenario(4, "bilinear", "samples.data", IntText(ns), <<>>,
                   File(ReportStride, 1, FullLength(ReportStride, 1), 1)) : ns \in {0, ReportStride}}

MainScenarios ==
    {Scenario(5, name, "samples.data", IntText(ns), IntText(nq), d)
        : name \in MainNames, ns \in (-1)..MaxSamples, nq \in (-1)..MaxSequences,
          d \in ShortFiles}
    \cup {Scenario(5, "bilinear", "samples.data", ns, nq, File(1, 1, FullLength(1, 1), 1))
        : ns \in {<<"a">>, <<" ", "4", "x">>}, nq \in {<<"+", "1">>}}

WholeScenarios ==
    UNION {UNION {{Scenario(5, name, "samples.data", IntText(ns), IntText(nq), d)
                      : d \in WholeFiles(ns, nq), name \in CatalogNames}
                  : ns \in {ReportStride}} : nq \in 1..MaxSequences}
    \cup UNION {{Scenario(5, name, "samples.data", IntText(MaxSamples), IntText(nq), d)
                      : d \in WholeFiles(MaxSamples, nq), name \in CatalogNames \ WideNames}
                  : nq \in 1..MaxSequences}

\* more samples than a row of the table holds
OverflowScenarios ==
    {Scenario(5, "quarterdisk", "samples.data", IntText(MAXSAMPLES + 1), IntText(2), d)
        : d \in {File(MAXSAMPLES + 1, 2, FullLength(MAXSAMPLES + 1, 2), 2)}}

Argv(sc) ==
    [i \in 0..(sc.argc - 1) |->
        CASE i = 0 -> "funcsamp2D"
          [] i = 1 -> sc.name
          [] i = 2 -> sc.fname
          [] i = 3 -> sc.ns
          [] i = 4 -> sc.nq
          [] OTHER -> "extra"]

InitWith(sc) ==
    /\ argc = sc.argc
    /\ argv = Argv(sc)
    /\ disk = sc.disk
    /\ functionName = NULL
    /\ samplesFilename = NULL
    /\ functionNumber = 0
    /\ reference = Indeterminate
    /\ numSamples = DefaultNumSamples
    /\ numSequences = DefaultNumSequences
    /\ fd = NULL
    /\ pos = 0
    /\ c = "?"
    /\ line = 0
    /\ s = 0
    /\ t = 0
    /\ x = Indeterminate
    /\ y = Indeterminate
    /\ ok = 0
    /\ samplePoints = [a \in {} |-> ZeroPoint]
    /\ sumresults = <<>>
    /\ result = Indeterminate
    /\ estimate = Indeterminate
    /\ error = Indeterminate
    /\ sumerror = Indeterminate
    /\ maxerror = Indeterminate
    /\ aveerror = Indeterminate
    /\ stdout = <<>>
    /\ stderr = <<>>
    /\ exitCode = -1
    /\ pc = "start"
    /\ nparsed = <<>>

Init ==
    \E sc \in UsageScenarios \cup LookupScenarios \cup DefaultScenarios
              \cup MainScenarios \cup WholeScenarios : InitWith(sc)

InitOverflow ==
    \E sc \in UsageScenarios \cup DefaultScenarios \cup OverflowScenarios : InitWith(sc)

(***************************************************************************)
(* main, one action for each step.                                         *)
(***************************************************************************)
\* if (argc < 3 || argc > 5) { printf(Usage); return 1; }
CheckArgs ==
    /\ pc = "start"
    /\ IF argc < 3 \/ argc > 5
       THEN /\ stdout' = Append(stdout, UsageLine)
            /\ exitCode' = 1
            /\ pc' = "exit"
       ELSE /\ pc' = "find"
            /\ UNCHANGED <<stdout, exitCode>>
    /\ UNCHANGED <<input, lookup, counts, stream, table, sums, stderr, s, t>>

\* find the function name in the table of known functions
FindName ==
    /\ pc = "find"
    /\ functionName' = argv[1]
    /\ LET i == FindFunction(argv[1])
       IN  IF i = NUMFUNCTIONS
           THEN /\ stdout' = Append(stdout, UnknownFunctionLine(argv[1]))
                /\ exitCode' = 1
                /\ pc' = "exit"
                /\ UNCHANGED <<functionNumber, reference>>
           ELSE /\ functionNumber' = i
                /\ reference' = functionTable[i + 1].refValue
                /\ pc' = "counts"
                /\ UNCHANGED <<stdout, exitCode>>
    /\ UNCHANGED <<input, counts, stream, table, sums, stderr, s, t>>

\* samplesFilename = argv[2]; the optional counts
ParseCounts ==
    /\ pc = "counts"
    /\ samplesFilename' = argv[2]
    /\ numSamples' = IF argc > 3 THEN atoi(argv[3]) ELSE numSamples
    /\ numSequences' = IF argc > 4 THEN atoi(argv[4]) ELSE numSequences
    /\ pc' = "open"
    /\ UNCHANGED <<input, lookup, stream, table, sums, output, s, t>>

\* open the file with the tables of sample points
OpenFile ==
    /\ pc = "open"
    /\ fd' = fopen(samplesFilename, disk)
    /\ IF fd' = NULL
       THEN /\ stdout' = Append(stdout, CannotOpenLine(samplesFilename))
            /\ exitCode' = 1
            /\ pc' = "exit"
       ELSE /\ pc' = "header"
            /\ UNCHANGED <<stdout, exitCode>>
    /\ line' = 0
    /\ UNCHANGED <<input, lookup, counts, pos, c, table, sums, stderr, s, t>>

\* for (line = 0; line < 3; line++) skipLine(fd);  -- one call; c is not
\* initialized, so it holds a newline or anything else when the call starts
SkipHeaderLine ==
    /\ pc = "header"
    /\ IF line < HeaderLines
       THEN \E cIn \in {"\n", "?"} :
              LET r == skipLine(disk, pos, cIn)
              IN  /\ pos' = r.pos
                  /\ c' = r.c
                  /\ IF r.returns
                     THEN line' = line + 1 /\ pc' = "header"
                     ELSE line' = line /\ pc' = "skipLine"
                  /\ UNCHANGED t
       ELSE /\ t' = 0
            /\ pc' = "sequence"
            /\ UNCHANGED <<pos, c, line>>
    /\ UNCHANGED <<input, lookup, counts, fd, table, sums, output, s>>

\* skipLine at the end of the file with c no newline: fscanf fails, c stays
\* as it is, and the loop goes round again
SkipLineSpin ==
    /\ pc = "skipLine"
    /\ pos >= disk.len
    /\ c # "\n"
    /\ UNCHANGED vars

\* for (t = 0; t < numSequences; t++) { for (s = 0; ...
NextSequence ==
    /\ pc = "sequence"
    /\ IF t < numSequences
       THEN /\ s' = 0
            /\ nparsed' = (t :> 0) @@ nparsed
            /\ pc' = "read"
       ELSE /\ pc' = "alloc"
            /\ UNCHANGED <<s, nparsed>>
    /\ UNCHANGED <<input, lookup, counts, stream, x, y, ok, samplePoints,
                   sums, output, t>>

\* ok = fscanf(fd, "%lf %lf", &x, &y); if (ok == -1) break; store x and y.
\* An x or y that no fscanf ever assigned is stored with whatever it holds.
ReadPair ==
    /\ pc = "read"
    /\ IF s < numSamples
       THEN LET r == fscanfPair(disk, pos, x, y)
            IN  /\ ok' = r.ok
                /\ pos' = r.pos
                /\ nparsed' = IF r.ok = 2 THEN [nparsed EXCEPT ![t] = @ + 1] ELSE nparsed
                /\ IF r.ok = -1
                   THEN /\ pc' = "separator"
                        /\ line' = 0
                        /\ UNCHANGED <<x, y, samplePoints, s>>
                   ELSE /\ x' \in (IF IsIndeterminate(r.x) THEN GarbageDoubles ELSE {r.x})
                        /\ y' \in (IF IsIndeterminate(r.y) THEN GarbageDoubles ELSE {r.y})
                        /\ samplePoints' = Store(samplePoints, t, s, [x |-> x', y |-> y'])
                        /\ s' = s + 1
                        /\ pc' = "read"
                        /\ UNCHANGED line
       ELSE /\ pc' = "separator"
            /\ line' = 0
            /\ UNCHANGED <<x, y, ok, samplePoints, nparsed, pos, s>>
    /\ UNCHANGED <<input, lookup, counts, fd, c, sums, output, t>>

\* for (line = 0; line < 2; line++) skipLine(fd);  -- one call
SkipSeparatorLine ==
    /\ pc = "separator"
    /\ IF line < SeparatorLines
       THEN \E cIn \in {"\n", "?"} :
              LET r == skipLine(disk, pos, cIn)
              IN  /\ pos' = r.pos
                  /\ c' = r.c
                  /\ IF r.returns
                     THEN line' = line + 1 /\ pc' = "separator"
                     ELSE line' = line /\ pc' = "skipLine"
                  /\ UNCHANGED t
       ELSE /\ t' = t + 1
            /\ pc' = "sequence"
            /\ UNCHANGED <<pos, c, line>>
    /\ UNCHANGED <<input, lookup, counts, fd, table, sums, output, s>>

\* sumresults = malloc(...); for (t ...) sumresults[t] = 0.0;
AllocInit ==
    /\ pc = "alloc"
    /\ sumresults' = [i \in 0..(numSequences - 1) |-> Zero]
    /\ t' = IF numSequences > 0 THEN numSequences ELSE 0
    /\ s' = 0
    /\ pc' = "samples"
    /\ UNCHANGED <<input, lookup, counts, stream, table, result, estimate, error,
                   sumerror, maxerror, aveerror, output>>

\* for (s = 0; s < numSamples; s++) { sumerror = 0.0; maxerror = 0.0; ...
\* and return 0 after the loop
NextSample ==
    /\ pc = "samples"
    /\ IF s < numSamples
       THEN /\ sumerror' = Zero
            /\ maxerror' = Zero
            /\ t' = 0
            /\ pc' = "trials"
            /\ UNCHANGED exitCode
       ELSE /\ exitCode' = 0
            /\ pc' = "exit"
            /\ UNCHANGED <<sumerror, maxerror, t>>
    /\ UNCHANGED <<input, lookup, counts, stream, table, sumresults, result, estimate,
                   error, aveerror, stdout, stderr, s>>

\* the body of the loop over the sequences
Evaluate ==
    /\ pc = "trials"
    /\ t < numSequences
    /\ result' = evaluateFunction(samplePoints, functionNumber, t, s)
    /\ sumresults' = [sumresults EXCEPT ![t] = DAdd(@, result')]
    /\ estimate' = Estimate(sumresults'[t], s)
    /\ error' = fabs(DSub(estimate', reference))
    /\ sumerror' = DAdd(sumerror, error')
    /\ maxerror' = MAX(error', maxerror)
    /\ t' = t + 1
    /\ UNCHANGED <<input, lookup, counts, stream, table, aveerror, output, s, pc>>

\* aveerror = sumerror / numSequences; print the error for 4, 8, 12, ... samples
Report ==
    /\ pc = "trials"
    /\ t >= numSequences
    /\ aveerror' = DDiv(sumerror, IntToDouble(numSequences))
    /\ stdout' = IF ShouldReport(s) THEN Append(stdout, ReportLine(s + 1, aveerror'))
                 ELSE stdout
    /\ s' = s + 1
    /\ pc' = "samples"
    /\ UNCHANGED <<input, lookup, counts, stream, table, sumresults, result, estimate,
                   error, sumerror, maxerror, stderr, exitCode, t>>

Next ==
    \/ CheckArgs
    \/ FindName
    \/ ParseCounts
    \/ OpenFile
    \/ SkipHeaderLine
    \/ SkipLineSpin
    \/ NextSequence
    \/ ReadPair
    \/ SkipSeparatorLine
    \/ AllocInit
    \/ NextSample
    \/ Evaluate
    \/ Report

Spec == Init /\ [][Next]_vars

SpecOverflow == InitOverflow /\ [][Next]_vars

(***************************************************************************)
(* The catalog, by name: the function an entry's name stands for and the   *)
(* reference value listed with it.                                         *)
(***************************************************************************)
CatalogValue(name, p) ==
    CASE name = "quarterdisk" -> quarterdisk(p.x, p.y)
      [] name = "fulldisk" -> fulldisk(p.x, p.y)
      [] name = "triangle" -> triangle(p.x, p.y)
      [] name = "quarterdiskramp" -> quarterdiskramp(p.x, p.y)
      [] name = "fulldiskramp" -> fulldiskramp(p.x, p.y)
      [] name = "triangleramp" -> triangleramp(p.x, p.y)
      [] name = "quartergaussian" -> quartergaussian2D(p.x, p.y)
      [] name = "fullgaussian" -> fullgaussian2D(p.x, p.y)
      [] name = "bilinear" -> bilinear(p.x, p.y)
      [] name = "biquadratic" -> biquadratic(p.x, p.y)
      [] name = "sinxy" -> sinxy(p.x, p.y)
      [] name = "sininvr" -> sininvr(p.x, p.y)
      [] name = "stepx" -> step(p.x)
      [] name = "rampx" -> ramp(p.x)
      [] name = "lineary" -> linear(p.y)
      [] name = "gaussianx" -> gaussian1D(p.x)
      [] name = "siny" -> sinx(p.y)
      [] name = "sin2x" -> sin2x(p.x)

CatalogReference(name) ==
    functionTable[CHOOSE i \in 1..NUMFUNCTIONS : functionTable[i].name = name].refValue

\* f(Sequence[tt][lo]) + ... + f(Sequence[tt][hi]) over the table as loaded
RECURSIVE SumOfValues(_, _, _, _)
SumOfValues(name, tt, lo, hi) ==
    IF lo > hi THEN Zero
    ELSE IF lo = hi THEN CatalogValue(name, Load(samplePoints, tt, lo))
    ELSE LET mid == (lo + hi) \div 2
         IN  DAdd(SumOfValues(name, tt, lo, mid), SumOfValues(name, tt, mid + 1, hi))

SequenceError(name, tt, n) ==
    fabs(DSub(DDiv(SumOfValues(name, tt, 0, n - 1), IntToDouble(n)), CatalogReference(name)))

RECURSIVE SumOfErrors(_, _, _)
SumOfErrors(name, n, upTo) ==
    IF upTo = 0 THEN Zero
    ELSE DAdd(SumOfErrors(name, n, upTo - 1), SequenceError(name, upTo - 1, n))

\* the mean over all sequences of |(f(p0) + ... + f(p(n-1))) / n - R|
MeanError(name, n) ==
    DDiv(SumOfErrors(name, n, numSequences), IntToDouble(numSequences))

Centroid == [x |-> D(1, 2), y |-> D(1, 2)]

AllCentroid(n) ==
    \A tt \in 0..(numSequences - 1) : \A ss \in 0..(n - 1) :
        Load(samplePoints, tt, ss) = Centroid

\* a checkpoint has just been passed: s samples are done, s a multiple of 4
AtCheckpoint ==
    pc = "samples" /\ s > 0 /\ s % ReportStride = 0

(***************************************************************************)
(* C1: at each checkpoint n (a multiple of 4) the error computed and       *)
(* printed is the mean over the sequences of |(f(p0)+...+f(p(n-1)))/n - R| *)
(* for the integrand f and reference value R named on the command line,    *)
(* whenever numSequences >= 1; with every point the centroid (0.5, 0.5)    *)
(* and the bilinear integrand the printed error is 0.000000.               *)
(***************************************************************************)
C1_ReportedErrorIsMeanError ==
    (AtCheckpoint /\ numSequences >= 1) =>
        /\ aveerror = MeanError(functionName, s)
        /\ Len(stdout) > 0
        /\ stdout[Len(stdout)] = [fmt |-> "%i %f\n",
                                  args |-> <<s, FormatF(MeanError(functionName, s))>>]
        /\ (functionName = "bilinear" /\ AllCentroid(s)) =>
               stdout[Len(stdout)].args[2] = [text |-> "", int |-> 0, frac |-> 0]

\* the second checkpoint of a run over two sequences or more, with an error
\* that is not zero
C1_Witness ==
    /\ AtCheckpoint
    /\ s = 2 * ReportStride
    /\ numSequences >= 2
    /\ aveerror.n > 0
    /\ Len(stdout) = 2

(***************************************************************************)
(* C2: while the errors are computed, the lines printed so far are those   *)
(* of the sample counts 4, 8, ... up to the number of samples done, in     *)
(* this order, and a run that ends with exit code 0 has printed exactly    *)
(* the floor(numSamples / 4) lines of the counts 4, 8, ...,                *)
(* 4 * floor(numSamples / 4) (none when numSamples is below 4).            *)
(***************************************************************************)
CountsAreMultiples(k) ==
    /\ Len(stdout) = k
    /\ \A i \in 1..k : stdout[i].fmt = "%i %f\n" /\ stdout[i].args[1] = ReportStride * i

C2_ReportLinesAtMultiplesOfFour ==
    /\ pc \in {"samples", "trials"} => CountsAreMultiples(s \div ReportStride)
    /\ (pc = "exit" /\ exitCode = 0) =>
           CountsAreMultiples(IF numSamples > 0 THEN numSamples \div ReportStride ELSE 0)

\* a finished run over a number of samples that is no multiple of 4
C2_Witness ==
    /\ pc = "exit"
    /\ exitCode = 0
    /\ numSamples > ReportStride
    /\ numSamples % ReportStride # 0
    /\ Len(stdout) >= 1

(***************************************************************************)
(* C3: after every sample index the average error is at least 0 and at     *)
(* most the maximum error, for all counts the command line accepts.        *)
(***************************************************************************)
C3_AverageErrorBetweenZeroAndMax ==
    (pc = "samples" /\ s > 0) => DGe(aveerror, Zero) /\ DLe(aveerror, maxerror)

(***************************************************************************)
(* C4: a function name that is none of the 18 names of the table ends the  *)
(* run with exit code 1 and the single line "Unknown function: '<name>'",  *)
(* the file neither opened nor read; a name of the table makes the run use *)
(* the function and the reference value of that entry throughout.          *)
(***************************************************************************)
C4_UnknownNameRejectedKnownNameUsed ==
    /\ (functionName # NULL /\ functionName \notin CatalogNames) =>
           /\ pc = "exit"
           /\ exitCode = 1
           /\ stdout = <<UnknownFunctionLine(functionName)>>
           /\ fd = NULL
           /\ pos = 0
           /\ DOMAIN samplePoints = {}
    /\ (functionName # NULL /\ functionName \in CatalogNames) =>
           /\ reference = CatalogReference(functionName)
           /\ (pc = "trials" /\ t > 0) =>
                  /\ result = CatalogValue(functionName, Load(samplePoints, t - 1, s))
                  /\ error = fabs(DSub(estimate, CatalogReference(functionName)))

\* a name that differs from a name of the table only in case is rejected
C4_Witness ==
    /\ functionName = "Bilinear"
    /\ pc = "exit"
    /\ exitCode = 1

(***************************************************************************)
(* C5 (as stated): each fatal condition ends the run with exit code 1 and  *)
(* its message on the diagnostic stream, nothing written to stdout.        *)
(***************************************************************************)
BadArgc == argc < 3 \/ argc > 5
UnknownName == ~BadArgc /\ argv[1] \notin CatalogNames
CannotOpen == ~BadArgc /\ ~UnknownName /\ (argv[2] # "samples.data" \/ ~disk.exists)
Fatal == BadArgc \/ UnknownName \/ CannotOpen

C5_FatalErrorsLeaveStdoutEmpty ==
    (pc = "exit" /\ Fatal) => exitCode = 1 /\ Len(stderr) = 1 /\ stdout = <<>>

(***************************************************************************)
(* C5 (amended): each fatal condition ends the run with exit code 1 before *)
(* the file is read, with exactly one line on stdout - the usage line, the *)
(* unknown-function line with the name, or the cannot-open line with the   *)
(* file name - and nothing on stderr; no report line is printed.           *)
(***************************************************************************)
C5_FatalErrorsExitOneWithMessageOnStdout ==
    /\ Fatal => pc \in {"start", "find", "counts", "open", "exit"} /\ fd = NULL
    /\ (pc = "exit" /\ Fatal) =>
           /\ exitCode = 1
           /\ stderr = <<>>
           /\ BadArgc => stdout = <<UsageLine>>
           /\ UnknownName => stdout = <<UnknownFunctionLine(argv[1])>>
           /\ CannotOpen => stdout = <<CannotOpenLine(argv[2])>>

\* a run ended by a file that cannot be opened
C5_Witness ==
    /\ pc = "exit"
    /\ CannotOpen
    /\ stdout = <<CannotOpenLine("missing.data")>>

(***************************************************************************)
(* C6: once the file is open the run goes on until it ends, and it ends    *)
(* with exit code 0 and the full report; no call of skipLine is caught at  *)
(* the end of the input.                                                   *)
(***************************************************************************)
C6_RunEndsWithExitZero ==
    fd # NULL =>
        IF pc = "exit"
        THEN exitCode = 0
        ELSE ENABLED <<Next>>_vars

(***************************************************************************)
(* C7: the integrand is evaluated only at slots that the reader filled     *)
(* with a pair parsed for that sequence: slot s of sequence t is evaluated *)
(* only if s is below the number of pairs parsed for t.                    *)
(***************************************************************************)
C7_EstimatorStaysInParsedPrefix ==
    (pc = "trials" /\ t > 0) => s < nparsed[t - 1]

(***************************************************************************)
(* C8: while and after sequence t is read, the slots written for it are    *)
(* exactly as many as the pairs parsed for it, the last one holding the    *)
(* last pair parsed: a pair that fails to parse ends the reading of the    *)
(* sequence and writes nothing.                                            *)
(***************************************************************************)
C8_ReadingStopsAtFirstFailedPair ==
    pc \in {"read", "separator"} =>
        /\ s = nparsed[t]
        /\ s > 0 => Load(samplePoints, t, s - 1) = [x |-> x, y |-> y]

(***************************************************************************)
(* C9: for a file of 3 header lines and numSequences blocks of numSamples  *)
(* pairs, a newline and a separator line each, the reader is at the start  *)
(* of block t when it begins sequence t, at the end of the file after the  *)
(* last, and the table then holds the s-th pair of block t in slot s of    *)
(* sequence t.                                                             *)
(***************************************************************************)
WellFormed ==
    /\ disk.exists
    /\ numSamples >= 0
    /\ numSequences >= 0
    /\ disk.pairs = numSamples
    /\ disk.blocks = numSequences
    /\ disk.len = FullLength(disk.pairs, disk.blocks)

FilePoint(b, j) ==
    [x |-> strtod(PointText(disk.seed, b, j).x), y |-> strtod(PointText(disk.seed, b, j).y)]

C9_WellFormedFileLoadsExactly ==
    /\ (pc = "sequence" /\ WellFormed) =>
           pos = HeaderTokens + t * BlockTokens(numSamples)
    /\ (pc = "alloc" /\ WellFormed) =>
           /\ pos = disk.len
           /\ \A tt \in 0..(numSequences - 1) : \A ss \in 0..(numSamples - 1) :
                  Load(samplePoints, tt, ss) = FilePoint(tt, ss)

(***************************************************************************)
(* C10: every write of the reader and every read of the estimator uses a   *)
(* sequence index below MAXTABLES and a sample index below MAXSAMPLES.     *)
(***************************************************************************)
C10_TableIndicesWithinCaps ==
    /\ (pc = "read" /\ s > 0) => (t >= 0 /\ t < MAXTABLES /\ s - 1 < MAXSAMPLES)
    /\ (pc = "trials" /\ t > 0) => (t - 1 < MAXTABLES /\ s >= 0 /\ s < MAXSAMPLES)

=============================================================================
